---------------------------- MODULE Spec2Model ----------------------------
(***************************************************************************)
(* A model of the signal-processing core of AiPD:                          *)
(*   src/Projekt2/functions.py            FFT / IFFT / full_IFFT,          *)
(*                                        frame_length, frame_signal       *)
(*   src/projekt_1/apka/feature_functions.py                               *)
(*                                        calculate_zcr, calculate_max_vol,*)
(*                                        calculate_silence_ratio_...      *)
(*                                                                         *)
(* Python floats are modelled by exact arithmetic: complex numbers by      *)
(* elements of a cyclotomic ring Z[zeta] that holds every twiddle factor   *)
(* of the transform lengths of the model;                                  *)
(* quotients by pairs (numerator, denominator) compared by                 *)
(* cross-multiplication; square roots by comparing squares.                *)
(***************************************************************************)
EXTENDS Integers, Sequences, FiniteSets, TLC

VARIABLES
    fft_x,      \* the vector handed to FFT / IFFT (main(): coefs)
    fft_out,    \* outcome of the last transform call
    fft_stage,  \* "input", "FFT", "IFFT" or "full_IFFT"
    fl_sr,      \* frame_length: sr
    fl_ms,      \* frame_length: min_frame_dur, in milliseconds
    fl_out,     \* frame_length: the returned l (0 before the call)
    fr_signal,  \* frame_signal: signal
    fr_L,       \* frame_signal: frame_length
    fr_q,       \* frame_signal: overlap, in quarters (overlap = fr_q / 4)
    fr_out,     \* frame_signal: outcome of the call
    fr_stage,   \* "input" or "done"
    zc_data,    \* calculate_zcr: data
    zc_out,     \* calculate_zcr: outcome of the call
    zc_stage,   \* "input", "feature_functions" or "main"
    seg_data,   \* calculate_silence_ratio_voiced_unvoiced: full_data
    seg_nframes,\* calculate_silence_ratio_voiced_unvoiced: nframes
    seg_out,    \* outcome of the call
    seg_stage,  \* "input" or "done"
    sp_fft,     \* spectral features: the magnitude spectrum of a frame
    sp_df,      \* spectral features: the step of the frequency axis
    sp_idx,     \* ESRB: the band is sp_fft[0:sp_idx]
    sp_sr,      \* plot_sfm, plot_scf: the sample rate the bands are cut for
    sp_out,     \* outcome of the last spectral feature call
    sp_stage,   \* "input" or the name of the feature called
    f0_data,    \* calculate_f0: data
    f0_sr,      \* calculate_f0: sample_rate
    f0_out,     \* calculate_f0: AMDF, the minima found and the value returned
    f0_stage,   \* "input" or "done"
    cep_sr,     \* f0_from_cepstrum: sr
    cep_cepstrum, \* f0_from_cepstrum: the cepstrum of the frame
    cep_out,    \* f0_from_cepstrum: the band, the peak and the value returned
    cep_stage,  \* "input" or "done"
    nm_signal,  \* loading: the integer PCM samples read from the file
    nm_out,     \* loading: the normalised signal
    nm_stage,   \* "input", "get_normalized_mono" or "open_audio_file"
    win_frame,  \* windowing: the frame, as it is after the call
    win_kind,   \* windowing: the window kind asked for
    win_out,    \* windowing: what the dispatch produced
    win_stage,  \* "input", "window_signal" or "update_windowed_plot"
    lin_x,      \* linearity of FFT: x
    lin_y,      \* linearity of FFT: y
    lin_a,      \* linearity of FFT: a
    lin_b,      \* linearity of FFT: b
    lin_out,    \* FFT(a*x + b*y), FFT(x), FFT(y)
    lin_stage,  \* "input" or "done"
    ov_e,       \* SFM, SCF in floating point: every bin of the band is 2^ov_e
    ov_N,       \* SFM, SCF in floating point: the number of bins of the band
    ov_out,     \* SFM, SCF in floating point: the value returned
    ov_stage,   \* "input", "SFM" or "SCF"
    app_state,  \* AudioAnalyzerApp: audio_data, selected_region and their files
    app_steps,  \* AudioAnalyzerApp: the number of events handled
    wv_state,   \* WAVViewer: audio_data, the sliders and the outcome of the last event
    wv_steps    \* WAVViewer: the number of events handled

fft_vars == <<fft_x, fft_out, fft_stage>>
fl_vars == <<fl_sr, fl_ms, fl_out>>
fr_vars == <<fr_signal, fr_L, fr_q, fr_out, fr_stage>>
zc_vars == <<zc_data, zc_out, zc_stage>>
seg_vars == <<seg_data, seg_nframes, seg_out, seg_stage>>
sp_vars == <<sp_fft, sp_df, sp_idx, sp_sr, sp_out, sp_stage>>
f0_vars == <<f0_data, f0_sr, f0_out, f0_stage>>
cep_vars == <<cep_sr, cep_cepstrum, cep_out, cep_stage>>
nm_vars == <<nm_signal, nm_out, nm_stage>>
win_vars == <<win_frame, win_kind, win_out, win_stage>>
lin_vars == <<lin_x, lin_y, lin_a, lin_b, lin_out, lin_stage>>
old_vars == <<fft_vars, fl_vars, fr_vars, zc_vars, seg_vars, sp_vars>>
more_vars == <<f0_vars, cep_vars, nm_vars, win_vars, lin_vars>>
ov_vars == <<ov_e, ov_N, ov_out, ov_stage>>
app_vars == <<app_state, app_steps>>
wv_vars == <<wv_state, wv_steps>>
new_vars == <<ov_vars, app_vars, wv_vars>>
vars == <<fft_vars, fl_vars, fr_vars, zc_vars, seg_vars, sp_vars, more_vars, new_vars>>

---------------------------------------------------------------------------
(* Bounds of the model. *)

\* transform lengths are 2^k and 3 * 2^k up to 2^MaxLog
MaxLog == 2
\* frame_length: sample rates 1..MaxSr besides the audio rates
MaxSr == 12
\* frame_length: minimal frame durations 1..MaxMs milliseconds
MaxMs == 40
\* frame_signal: signals of 0..MaxSigLen samples
MaxSigLen == 9
\* frame_signal: frame lengths 1..MaxFrameLen
MaxFrameLen == 5
\* frame_signal: overlaps 0, 1/4, .., MaxQuarters/4
MaxQuarters == 8
\* calculate_zcr: frames of 0..MaxZcrLen samples
MaxZcrLen == 5
\* segmentation: signals of 0..MaxSegLen samples
MaxSegLen == 5
\* segmentation: nframes in 1..MaxNFrames
MaxNFrames == 4
\* spectral features: spectra of 1..MaxBins bins
MaxBins == 4
\* spectral features: magnitudes 0..MaxMag
MaxMag == 2
\* spectral features: frequency steps 1..MaxDf
MaxDf == 2
\* calculate_f0: data of 0..MaxF0Len samples
MaxF0Len == 6
\* loading: files of 0..MaxPcmLen samples
MaxPcmLen == 3
\* windowing: frames of 0..MaxWinLen samples
MaxWinLen == 4
\* SFM, SCF in floating point: magnitudes 2^e for e in -MaxOvExp..MaxOvExp
MaxOvExp == 8
\* SFM, SCF in floating point: bands of 1..MaxOvBins bins
MaxOvBins == 80

---------------------------------------------------------------------------
(* Exact complex numbers: Z[zeta], zeta a primitive root of unity of order *)
(* RootOrder = 3 * 2^MaxLog.  An element is the tuple <<c_0,..,c_(Dim-1)>>  *)
(* standing for sum c_k * zeta^k, Dim = 2^MaxLog, and                      *)
(* zeta^Dim = zeta^(Dim/2) - 1 (the cyclotomic polynomial of that order,   *)
(* x^Dim - x^(Dim/2) + 1).                                                 *)

RECURSIVE Pow2(_)
Pow2(k) == IF k = 0 THEN 1 ELSE 2 * Pow2(k - 1)

Dim == Pow2(MaxLog)
RootOrder == 3 * Dim

Zero == [k \in 1..Dim |-> 0]
One  == [k \in 1..Dim |-> IF k = 1 THEN 1 ELSE 0]

Add(a, b) == [k \in 1..Dim |-> a[k] + b[k]]
Sub(a, b) == [k \in 1..Dim |-> a[k] - b[k]]
Scale(m, a) == [k \in 1..Dim |-> m * a[k]]

\* a * zeta
MulZeta(a) ==
    [k \in 1..Dim |->
        IF k = 1 THEN 0 - a[Dim]
        ELSE IF k = (Dim \div 2) + 1 THEN a[Dim \div 2] + a[Dim]
        ELSE a[k - 1]]

RECURSIVE MulZetaPow(_, _)
\* a * zeta^p, p >= 0
MulZetaPow(a, p) == IF p = 0 THEN a ELSE MulZetaPow(MulZeta(a), p - 1)

\* the imaginary unit 1j = zeta^(RootOrder / 4)
ImagUnit == MulZetaPow(One, RootOrder \div 4)

RECURSIVE MulLoop(_, _, _)
\* sum over k of a[k] * zeta^(k-1) * b, from the k-th term on
MulLoop(a, b, k) ==
    IF k > Dim THEN Zero
    ELSE Add(Scale(a[k], MulZetaPow(b, k - 1)), MulLoop(a, b, k + 1))

\* the product a * b
Mul(a, b) == MulLoop(a, b, 1)

\* w**i added to a instead of multiplied into it
TwiddleAdd(sign, n, i, a) ==
    Add(MulZetaPow(One, (sign * i * (RootOrder \div n)) % RootOrder), a)

\* cmath.exp(sign * 2*pi*1j / n) ** i, multiplied into a, for n dividing
\* RootOrder: the exponent of zeta, reduced modulo RootOrder
TwiddleMul(sign, n, i, a) ==
    MulZetaPow(a, (sign * i * (RootOrder \div n)) % RootOrder)

---------------------------------------------------------------------------
(* Python slicing list[::2] and list[1::2] on 1-based sequences. *)

Evens(list) == [k \in 1..((Len(list) + 1) \div 2) |-> list[2 * k - 1]]
Odds(list)  == [k \in 1..(Len(list) \div 2) |-> list[2 * k]]

\* outcome of a call: a returned vector or a raised exception
Returned(v) == [err |-> "none", val |-> v, den |-> 1]
Raised(e)   == [err |-> e, val |-> <<>>, den |-> 1]

\* the combine loop without its second assignment: ret[i + n//2] stays 0
ButterflyHalfOnly(sign, n, e_val, o_val) ==
    LET h == n \div 2 IN
    [k \in 1..n |->
        IF k <= h
        THEN Add(e_val[k], TwiddleMul(sign, n, k - 1, o_val[k]))
        ELSE Zero]

\* the combine loop of FFT (sign = 1) and IFFT (sign = -1):
\*   ret = [0] * n
\*   for i in range(n // 2):
\*       ret[i]        = e_val[i] + w**i * o_val[i]
\*       ret[i + n//2] = e_val[i] - w**i * o_val[i]
Butterfly(sign, n, e_val, o_val) ==
    LET h == n \div 2 IN
    [k \in 1..n |->
        IF k <= h
        THEN Add(e_val[k], TwiddleMul(sign, n, k - 1, o_val[k]))
        ELSE IF k <= 2 * h
        THEN Sub(e_val[k - h], TwiddleMul(sign, n, k - h - 1, o_val[k - h]))
        ELSE Zero]

RECURSIVE Transform(_, _)
\* the body FFT and IFFT share; they differ in the sign of the twiddle only
Transform(sign, list) ==
    LET n == Len(list) IN
    IF n = 1 THEN Returned(list)
    ELSE IF n = 0 THEN Raised("ZeroDivisionError")   \* 2*pi*1j / n
    ELSE LET e == Transform(sign, Evens(list))
             o == Transform(sign, Odds(list))
         IN  IF e.err # "none" THEN e
             ELSE IF o.err # "none" THEN o
             ELSE Returned(Butterfly(sign, n, e.val, o.val))

FFT(list) == Transform(1, list)

\* the inverse with the twiddle of the forward transform
IFFTSameSign(list) == Transform(1, list)

IFFT(list) == Transform(-1, list)

\* np.array(IFFT(list)) / n: the quotient is kept as numerators over n
full_IFFT(list) ==
    LET n == Len(list)
        r == IFFT(list)
    IN  IF r.err # "none" THEN r
        ELSE [err |-> "none", val |-> r.val, den |-> n]

---------------------------------------------------------------------------
(* Inputs of the transform. *)

FFTLengths ==
    {0} \cup {n \in 1..Pow2(MaxLog) : \E k \in 0..MaxLog : n = Pow2(k) \/ n = 3 * Pow2(k)}

\* sample values: 0, 1 and -1 + 2j
Samples == {Zero, One, Sub(Scale(2, ImagUnit), One)}

FFTInputs == UNION {[1..n -> Samples] : n \in FFTLengths}

FFTInit ==
    /\ fft_x \in FFTInputs
    /\ fft_out = Returned(fft_x)
    /\ fft_stage = "input"

\* FFT(coefs)
CallFFT ==
    /\ fft_stage = "input"
    /\ fft_out' = FFT(fft_x)
    /\ fft_stage' = "FFT"
    /\ UNCHANGED <<fft_x, fl_vars, fr_vars, zc_vars, seg_vars, sp_vars, more_vars, new_vars>>

\* IFFT(coefs)
CallIFFT ==
    /\ fft_stage = "input"
    /\ fft_out' = IFFT(fft_x)
    /\ fft_stage' = "IFFT"
    /\ UNCHANGED <<fft_x, fl_vars, fr_vars, zc_vars, seg_vars, sp_vars, more_vars, new_vars>>

\* full_IFFT(FFT(coefs)), the second call of main()
CallFullIFFT ==
    /\ fft_stage = "FFT"
    /\ fft_out.err = "none"
    /\ fft_out' = full_IFFT(fft_out.val)
    /\ fft_stage' = "full_IFFT"
    /\ UNCHANGED <<fft_x, fl_vars, fr_vars, zc_vars, seg_vars, sp_vars, more_vars, new_vars>>

FFTNext == CallFFT \/ CallIFFT \/ CallFullIFFT

---------------------------------------------------------------------------
(* frame_length(sr, min_frame_dur) *)

\* the loop  while (T * l < min_frame_dur): l *= 2  with T = 1 / sr and
\* min_frame_dur = ms / 1000:  l / sr < ms / 1000  iff  1000 * l < ms * sr
RECURSIVE frame_length_loop(_, _, _)
frame_length_loop(sr, ms, l) ==
    IF 1000 * l < ms * sr THEN frame_length_loop(sr, ms, 2 * l) ELSE l

\* the loop entered with l = 2
frame_lengthFromTwo(sr, ms) == frame_length_loop(sr, ms, 2)

frame_length(sr, ms) == frame_length_loop(sr, ms, 1)

\* sample rates of audio files next to the small ones
AudioRates == {8000, 16000, 44100}

FLIdle == fl_sr = 1 /\ fl_ms = 1 /\ fl_out = 0

FLInit ==
    /\ fl_sr \in (1..MaxSr) \cup AudioRates
    /\ fl_ms \in 1..MaxMs
    /\ fl_out = 0

\* l = frame_length(sr, min_frame_dur)
CallFrameLength ==
    /\ fl_out = 0
    /\ fl_out' = frame_length(fl_sr, fl_ms)
    /\ UNCHANGED <<fl_sr, fl_ms, fft_vars, fr_vars, zc_vars, seg_vars, sp_vars, more_vars, new_vars>>

---------------------------------------------------------------------------
(* frame_signal(signal, frame_length, overlap) *)

\* int(x) of the quotient a / b, b > 0: truncation toward zero
IntTrunc(a, b) == IF a >= 0 THEN a \div b ELSE 0 - ((0 - a) \div b)

\* Python's a % b for b # 0: the result has the sign of b
PyMod(a, b) == IF b > 0 THEN a % b ELSE 0 - ((0 - a) % (0 - b))

\* np.pad(signal, (0, pad_length), 'constant')
ZeroPad(signal, pad_length) ==
    [k \in 1..(Len(signal) + pad_length) |->
        IF k <= Len(signal) THEN signal[k] ELSE 0]

\* sliding_window_view(padded, window_shape)[i]: padded[i : i + window_shape]
Window(padded, window_shape, i) ==
    [k \in 1..window_shape |-> padded[i + k]]

\* the start indices picked by [::hop_length] among the nwin windows
Strided(nwin, hop_length) ==
    LET step  == IF hop_length > 0 THEN hop_length ELSE 0 - hop_length
        count == (nwin + step - 1) \div step
    IN  [j \in 1..count |->
            IF hop_length > 0 THEN (j - 1) * step
            ELSE (nwin - 1) - (j - 1) * step]

FrRaised(e) == [err |-> e, hop |-> 0, padded |-> <<>>, frames |-> <<>>]

\* hop_length = int(frame_length * (1 - overlap)) for overlap = q / 4: the
\* quarters and their products with a small frame_length are exact floats
HopLength(L, q) == IntTrunc(L * (4 - q), 4)

\* pad_length = hop_length - overhang if overhang != 0 else 0
PadLength(hop_length, overhang) ==
    IF overhang # 0 THEN hop_length - overhang ELSE 0

frame_signal(signal, L, q) ==
    LET hop_length == HopLength(L, q) IN
    IF hop_length = 0 THEN FrRaised("ZeroDivisionError")      \* % hop_length
    ELSE
    LET overhang   == PyMod(Len(signal) - L, hop_length)
        pad_length == PadLength(hop_length, overhang)
    IN
    IF pad_length < 0 THEN FrRaised("ValueError")             \* np.pad
    ELSE
    LET padded_signal == ZeroPad(signal, pad_length) IN
    IF Len(padded_signal) < L THEN FrRaised("ValueError")     \* sliding_window_view
    ELSE
    LET starts == Strided(Len(padded_signal) - L + 1, hop_length) IN
    [err    |-> "none",
     hop    |-> hop_length,
     padded |-> padded_signal,
     frames |-> [j \in 1..Len(starts) |-> Window(padded_signal, L, starts[j])]]

\* signals whose samples are all different and non-zero: 1, 2, .., n
Ramp(n) == [k \in 1..n |-> k]

FRIdle ==
    /\ fr_signal = <<>> /\ fr_L = 1 /\ fr_q = 0
    /\ fr_out = FrRaised("not called") /\ fr_stage = "idle"

FRInit ==
    /\ fr_signal \in {Ramp(n) : n \in 0..MaxSigLen}
    /\ fr_L \in 1..MaxFrameLen
    /\ fr_q \in 0..MaxQuarters
    /\ fr_out = FrRaised("not called")
    /\ fr_stage = "input"

\* frames = frame_signal(signal, l, overlap)
CallFrameSignal ==
    /\ fr_stage = "input"
    /\ fr_out' = frame_signal(fr_signal, fr_L, fr_q)
    /\ fr_stage' = "done"
    /\ UNCHANGED <<fr_signal, fr_L, fr_q, fft_vars, fl_vars, zc_vars, seg_vars, sp_vars, more_vars, new_vars>>

FFTIdle == fft_x = <<>> /\ fft_out = Returned(<<>>) /\ fft_stage = "idle"

---------------------------------------------------------------------------
(* calculate_zcr(data): feature_functions.py, and the copy nested in       *)
(* WAVViewer.calculate_parameters of projekt_1/apka/main.py.               *)

\* the product data[i-1] * data[i] of two Python floats
FloatMul(a, b) == a * b

\* the product of two numpy.int16 scalars: it wraps to 16 bits
Int16Mul(a, b) == ((a * b + 32768) % 65536) - 32768

RECURSIVE CrossesLoop(_, _, _, _)
\* for i in range(1, length): if data[i-1] * data[i] < 0: crosses += 1
\* (i counts as in the code; data[i] is the model's data[i + 1])
CrossesLoop(data, i, crosses, wrap) ==
    IF i >= Len(data) THEN crosses
    ELSE LET prod == IF wrap THEN Int16Mul(data[i], data[i + 1])
                     ELSE FloatMul(data[i], data[i + 1])
         IN  CrossesLoop(data, i + 1, IF prod < 0 THEN crosses + 1 ELSE crosses, wrap)

ZcrRaised(e) == [err |-> e, num |-> 0, den |-> 1]

\* crosses / (2 * length), kept as numerator and denominator
ZcrBody(data, wrap) ==
    LET length == Len(data)
        crosses == CrossesLoop(data, 1, 0, wrap)
    IN  IF 2 * length = 0 THEN ZcrRaised("ZeroDivisionError")
        ELSE [err |-> "none", num |-> crosses, den |-> 2 * length]

\* feature_functions.calculate_zcr, on a frame of floats
calculate_zcr(data) == ZcrBody(data, FALSE)

\* calculate_parameters.calculate_zcr, on a frame of the int16 audio_data
calculate_parameters_calculate_zcr(data) == ZcrBody(data, TRUE)

\* frame_data**2 on the int16 array: every square is stored in 16 bits
Int16Squares(frame_data) ==
    [k \in 1..Len(frame_data) |-> Int16Mul(frame_data[k], frame_data[k])]

RECURSIVE SumFrom(_, _)
SumFrom(v, k) == IF k > Len(v) THEN 0 ELSE v[k] + SumFrom(v, k + 1)

\* ste = np.mean(frame_data**2) and ZCR = calculate_zcr(frame_data) of
\* calculate_parameters; the mean is kept as sum and count
calculate_parameters(frame_data) ==
    LET ZCR == calculate_parameters_calculate_zcr(frame_data) IN
    [err |-> ZCR.err, num |-> ZCR.num, den |-> ZCR.den,
     ste |-> [sum |-> SumFrom(Int16Squares(frame_data), 1), count |-> Len(frame_data)]]

\* sample values, all of them 16-bit integers
ZcrSamples == {0 - 200, 0 - 3, 0, 200}

ZCIdle == zc_data = <<>> /\ zc_out = ZcrRaised("not called") /\ zc_stage = "idle"

ZCInit ==
    /\ zc_data \in UNION {[1..n -> ZcrSamples] : n \in 0..MaxZcrLen}
    /\ zc_out = ZcrRaised("not called")
    /\ zc_stage = "input"

\* calculate_zcr(frame) of feature_functions.py
CallZCR ==
    /\ zc_stage = "input"
    /\ zc_out' = calculate_zcr(zc_data)
    /\ zc_stage' = "feature_functions"
    /\ UNCHANGED <<zc_data, fft_vars, fl_vars, fr_vars, seg_vars, sp_vars, more_vars, new_vars>>

\* ZCR = calculate_zcr(frame_data) of calculate_parameters, which returns
\* before it when len(frame_data) == 0
CallParametersZCR ==
    /\ zc_stage = "input"
    /\ Len(zc_data) # 0
    /\ zc_out' = calculate_parameters(zc_data)
    /\ zc_stage' = "main"
    /\ UNCHANGED <<zc_data, fft_vars, fl_vars, fr_vars, seg_vars, sp_vars, more_vars, new_vars>>

---------------------------------------------------------------------------
(* calculate_max_vol and calculate_silence_ratio_voiced_unvoiced.          *)
(* A volume is a square root; the model keeps what is under the root, as   *)
(* a sum of squares s and a divisor l, and compares squares.               *)

RECURSIVE SumSq(_, _)
\* sum(frame ** 2), from sample k on
SumSq(frame, k) ==
    IF k > Len(frame) THEN 0 ELSE frame[k] * frame[k] + SumSq(frame, k + 1)

\* np.array_split(full_data, nframes): the first len % nframes sections
\* have len // nframes + 1 samples, the others len // nframes
SectionStart(len, nframes, j) ==
    LET q == len \div nframes
        r == len % nframes
    IN  (j - 1) * q + (IF j - 1 < r THEN j - 1 ELSE r)

array_split(full_data, nframes) ==
    [j \in 1..nframes |->
        LET a == SectionStart(Len(full_data), nframes, j)
            b == SectionStart(Len(full_data), nframes, j + 1)
        IN  [k \in 1..(b - a) |-> full_data[a + k]]]

\* maxv = -3
InitialMaxV == [kind |-> "initial", s |-> 0, l |-> 1]

\* vol > maxv for vol = sqrt(mean(frame ** 2)); the mean of an empty frame
\* is nan, which is greater than nothing
VolGreater(frame, maxv) ==
    IF Len(frame) = 0 THEN FALSE
    ELSE IF maxv.kind = "initial" THEN TRUE
    ELSE SumSq(frame, 1) * maxv.l > maxv.s * Len(frame)

RECURSIVE MaxVolLoop(_, _, _)
\* for frame in frames: vol = ...; if vol > maxv: maxv = vol
MaxVolLoop(frames, j, maxv) ==
    IF j > Len(frames) THEN maxv
    ELSE MaxVolLoop(frames, j + 1,
            IF VolGreater(frames[j], maxv)
            THEN [kind |-> "vol", s |-> SumSq(frames[j], 1), l |-> Len(frames[j])]
            ELSE maxv)

calculate_max_vol(full_data, nframes) ==
    MaxVolLoop(array_split(full_data, nframes), 1, InitialMaxV)

\* ZCR_thresh = 0.03 and the factor 0.05 of maxv, in hundredths
ZCR_thresh == 3
VolFraction == 5

\* calculate_zcr(frame) < ZCR_thresh
ZcrBelowThresh(zcr) == 100 * zcr.num < ZCR_thresh * zcr.den

\* vol < 0.05 * maxv for vol = sqrt(sum(frame ** 2)); 0.05 * -3 is negative
VolBelowFraction(frame, maxv) ==
    IF maxv.kind = "initial" THEN FALSE
    ELSE 100 * 100 * SumSq(frame, 1) * maxv.l < VolFraction * VolFraction * maxv.s

\* vol > 0.05 * maxv
VolAboveFraction(frame, maxv) ==
    IF maxv.kind = "initial" THEN TRUE
    ELSE 100 * 100 * SumSq(frame, 1) * maxv.l > VolFraction * VolFraction * maxv.s

SegRaised(e) ==
    [err |-> e, silent |-> 0, nframes |-> 1,
     silent_idxs |-> <<>>, voiced_idxs |-> <<>>, unvoiced_idxs |-> <<>>]

\* the segment with its last sample as the end
SegmentEndInclusive(curr_idx, frame) == <<curr_idx, curr_idx + Len(frame) - 1>>

\* (curr_idx, curr_idx + len(frame))
Segment(curr_idx, frame) == <<curr_idx, curr_idx + Len(frame)>>

RECURSIVE ClassifyLoop(_, _, _, _, _)
\* the loop over the frames; acc holds silent, the three lists and curr_idx
ClassifyLoop(frames, j, maxv, curr_idx, acc) ==
    IF j > Len(frames) THEN acc
    ELSE
    LET frame == frames[j]
        zcr   == calculate_zcr(frame)
        seg   == Segment(curr_idx, frame)
    IN
    IF zcr.err # "none" THEN SegRaised(zcr.err)
    ELSE IF ZcrBelowThresh(zcr) /\ VolBelowFraction(frame, maxv)
    THEN ClassifyLoop(frames, j + 1, maxv, curr_idx + Len(frame),
            [acc EXCEPT !.silent = @ + 1, !.silent_idxs = Append(@, seg)])
    ELSE IF ZcrBelowThresh(zcr) /\ VolAboveFraction(frame, maxv)
    THEN ClassifyLoop(frames, j + 1, maxv, curr_idx + Len(frame),
            [acc EXCEPT !.voiced_idxs = Append(@, seg)])
    ELSE ClassifyLoop(frames, j + 1, maxv, curr_idx + Len(frame),
            [acc EXCEPT !.unvoiced_idxs = Append(@, seg)])

\* returns (silent / nframes), silent_idxs, voiced_idxs, unvoiced_idxs; the
\* ratio is kept as silent over nframes
calculate_silence_ratio_voiced_unvoiced(full_data, nframes) ==
    LET maxv   == calculate_max_vol(full_data, nframes)
        frames == array_split(full_data, nframes)
    IN  ClassifyLoop(frames, 1, maxv, 0,
            [SegRaised("none") EXCEPT !.nframes = nframes])

\* sample values
SegSamples == {0 - 1, 0, 17}

SEGIdle ==
    /\ seg_data = <<>> /\ seg_nframes = 1
    /\ seg_out = SegRaised("not called") /\ seg_stage = "idle"

SEGInit ==
    /\ seg_data \in UNION {[1..n -> SegSamples] : n \in 0..MaxSegLen}
    /\ seg_nframes \in 1..MaxNFrames
    /\ seg_out = SegRaised("not called")
    /\ seg_stage = "input"

\* calculate_silence_ratio_voiced_unvoiced(full_data, nframes)
CallSilenceRatio ==
    /\ seg_stage = "input"
    /\ seg_out' = calculate_silence_ratio_voiced_unvoiced(seg_data, seg_nframes)
    /\ seg_stage' = "done"
    /\ UNCHANGED <<seg_data, seg_nframes, fft_vars, fl_vars, fr_vars, zc_vars, sp_vars, more_vars, new_vars>>

---------------------------------------------------------------------------
(* frequency_centroid, effective_bandwidth, ESRB, vol of functions.py.     *)
(* A root is kept as what is under it: the centroid sqrt(up / den) as the  *)
(* pair up, den; the bandwidth (rat - sqrt(root)) / den as rat, root, den. *)

RECURSIVE SumOf(_, _)
\* np.sum(v), from element k on
SumOf(v, k) == IF k > Len(v) THEN 0 ELSE v[k] + SumOf(v, k + 1)

\* the elementwise product a * b
Times(a, b) == [k \in 1..Len(a) |-> a[k] * b[k]]

Negated(x) == [k \in 1..Len(x) |-> 0 - x[k]]

RECURSIVE MaxFrom(_, _)
MaxFrom(x, k) ==
    IF k = Len(x) THEN x[k]
    ELSE LET r == MaxFrom(x, k + 1) IN IF x[k] > r THEN x[k] ELSE r

\* a literal 0 returned by a guard
SpZero == [kind |-> "zero", up |-> 0, root |-> 0, den |-> 1]

\* a quotient with the divisor 0: numpy gives nan or inf and a warning
SpNan == [kind |-> "nan", up |-> 0, root |-> 0, den |-> 0]

frequency_centroidNoGuard(fft, frequencies) ==
    LET den == SumOf(fft, 1) * SumOf(fft, 1)
        to_sum_up == Times(fft, frequencies)
        up == SumOf(Times(to_sum_up, to_sum_up), 1)
    IN  IF den = 0 THEN SpNan
        ELSE [kind |-> "root", up |-> up, root |-> 0, den |-> den]

\* den = np.sum(fft)**2; 0 if den == 0; else (sum((fft*frequencies)**2) / den) ** (1/2)
frequency_centroid(fft, frequencies) ==
    LET den == SumOf(fft, 1) * SumOf(fft, 1) IN
    IF den = 0 THEN SpZero
    ELSE LET to_sum_up == Times(fft, frequencies)
             up == SumOf(Times(to_sum_up, to_sum_up), 1)
         IN  [kind |-> "root", up |-> up, root |-> 0, den |-> den]

\* fc = frequency_centroid(..); den = np.sum(fft); 0 if den == 0; else
\* np.sum((frequencies - fc) * fft) / den, which is
\* (sum(frequencies * fft) - fc * sum(fft)) / den with fc * sum(fft) the
\* root of fc.up * sum(fft)**2 / fc.den
effective_bandwidth(fft, frequencies) ==
    LET fc  == frequency_centroid(fft, frequencies)
        den == SumOf(fft, 1)
    IN  IF den = 0 THEN SpZero
        ELSE [kind |-> "difference",
              up   |-> SumOf(Times(frequencies, fft), 1),
              root |-> IF fc.kind = "zero" THEN 0
                       ELSE (fc.up * den * den) \div fc.den,
              den  |-> den]

\* np.sum(np.hamming(N)), in hundredths: the window is
\* 0.54 - 0.46 * cos(2*pi*n / (N-1)), whose cosines sum to 1 over
\* n = 0..N-1 for N >= 3 and to 2 for N = 2; np.hamming(1) is [1.]
HammingSum(N) ==
    IF N = 0 THEN 0
    ELSE IF N = 1 THEN 100
    ELSE IF N = 2 THEN 2 * 54 - 2 * 46
    ELSE 54 * N - 46

\* vol(fft) = np.mean(fft**2), as sum and count
vol(fft) == [sum |-> SumOf(Times(fft, fft), 1), count |-> Len(fft)]

\* 0 if vol == 0; else (np.sum(fft**2) / np.sum(np.hamming(N))) / vol
ESRB(N, fft, v) ==
    IF v.count # 0 /\ v.sum = 0 THEN SpZero
    ELSE IF HammingSum(N) = 0 \/ v.count = 0 THEN SpNan
    ELSE [kind |-> "ratio", up |-> 100 * SumOf(Times(fft, fft), 1) * v.count,
          root |-> 0, den |-> HammingSum(N) * v.sum]

\* the error the call ends in
SpRaised(e) == [kind |-> e, up |-> 0, root |-> 0, den |-> 1]

RECURSIVE ProdOf(_, _)
\* np.prod(v), from element k on
ProdOf(v, k) == IF k > Len(v) THEN 1 ELSE v[k] * ProdOf(v, k + 1)

SFMNoRoot(fft) ==
    LET N == Len(fft)
        den == SumOf(Times(fft, fft), 1)
    IN  IF N = 0 THEN SpRaised("ZeroDivisionError")
        ELSE IF den = 0 THEN SpNan
        ELSE [kind |-> "ratio", up |-> ProdOf(Times(fft, fft), 1) * N,
              root |-> 0, den |-> den]

\* np.prod(fft**2)**(1/N) * N / np.sum(fft**2): the N-th root of root, times
\* up, over den; 1/N raises for N = 0
SFM(fft) ==
    LET N == Len(fft)
        den == SumOf(Times(fft, fft), 1)
    IN  IF N = 0 THEN SpRaised("ZeroDivisionError")
        ELSE IF den = 0 THEN SpNan
        ELSE [kind |-> "sfm", up |-> N, root |-> ProdOf(Times(fft, fft), 1),
              den |-> den]

\* np.max(fft**2) * N / np.sum(fft**2); np.max raises for an empty band
SCF(fft) ==
    LET N == Len(fft)
        den == SumOf(Times(fft, fft), 1)
    IN  IF N = 0 THEN SpRaised("ValueError")
        ELSE IF den = 0 THEN SpNan
        ELSE [kind |-> "ratio", up |-> MaxFrom(Times(fft, fft), 1) * N,
              root |-> 0, den |-> den]

\* np.fft.rfftfreq: 0, df, 2*df, ..
FreqAxis(bins, df) == [k \in 1..bins |-> (k - 1) * df]

\* the frame length l whose rfft has that many bins (l // 2 + 1)
FrameLenOfBins(bins) == IF bins = 1 THEN 1 ELSE 2 * (bins - 1)

\* spec[idx0:idx1] with idx0 = 0
Band(fft, idx) == [k \in 1..idx |-> fft[k]]

\* sample rates for which a spectrum of a few bins has non-empty bands
SpRates == {1000, 8000}

SPIdle ==
    /\ sp_fft = <<>> /\ sp_df = 1 /\ sp_idx = 0 /\ sp_sr = 1
    /\ sp_out = SpZero /\ sp_stage = "idle"

SPInit ==
    /\ sp_fft \in UNION {[1..n -> 0..MaxMag] : n \in 1..MaxBins}
    /\ sp_df \in 1..MaxDf
    /\ sp_idx \in 0..Len(sp_fft)
    /\ sp_sr \in SpRates
    /\ sp_out = SpZero
    /\ sp_stage = "input"

\* frequency_centroid(frame, freqs)
CallCentroid ==
    /\ sp_stage = "input"
    /\ sp_out' = frequency_centroid(sp_fft, FreqAxis(Len(sp_fft), sp_df))
    /\ sp_stage' = "centroid"
    /\ UNCHANGED <<sp_fft, sp_df, sp_idx, sp_sr, fft_vars, fl_vars, fr_vars, zc_vars, seg_vars, more_vars, new_vars>>

\* effective_bandwidth(frame, freqs)
CallBandwidth ==
    /\ sp_stage = "input"
    /\ sp_out' = effective_bandwidth(sp_fft, FreqAxis(Len(sp_fft), sp_df))
    /\ sp_stage' = "bandwidth"
    /\ UNCHANGED <<sp_fft, sp_df, sp_idx, sp_sr, fft_vars, fl_vars, fr_vars, zc_vars, seg_vars, more_vars, new_vars>>

\* ESRB(l, frame, vol(spec[i])) for the frame of band1
CallESRB ==
    /\ sp_stage = "input"
    /\ sp_out' = ESRB(FrameLenOfBins(Len(sp_fft)), Band(sp_fft, sp_idx), vol(sp_fft))
    /\ sp_stage' = "ESRB"
    /\ UNCHANGED <<sp_fft, sp_df, sp_idx, sp_sr, fft_vars, fl_vars, fr_vars, zc_vars, seg_vars, more_vars, new_vars>>

\* SFM(frame) for the frame of band1 = spec[:, 0:idx1]
CallSFM ==
    /\ sp_stage = "input"
    /\ sp_out' = SFM(Band(sp_fft, sp_idx))
    /\ sp_stage' = "SFM"
    /\ UNCHANGED <<sp_fft, sp_df, sp_idx, sp_sr, fft_vars, fl_vars, fr_vars, zc_vars, seg_vars, more_vars, new_vars>>

\* SCF(frame) for the frame of band1 = spec[:, 0:idx1]
CallSCF ==
    /\ sp_stage = "input"
    /\ sp_out' = SCF(Band(sp_fft, sp_idx))
    /\ sp_stage' = "SCF"
    /\ UNCHANGED <<sp_fft, sp_df, sp_idx, sp_sr, fft_vars, fl_vars, fr_vars, zc_vars, seg_vars, more_vars, new_vars>>

---------------------------------------------------------------------------
(* The components below, at rest. *)

F0Idle == f0_data = <<>> /\ f0_sr = 1 /\ f0_out = <<>> /\ f0_stage = "idle"

CEPIdle == cep_sr = 1 /\ cep_cepstrum = <<>> /\ cep_out = <<>> /\ cep_stage = "idle"

NMIdle == nm_signal = <<>> /\ nm_out = <<>> /\ nm_stage = "idle"

WINIdle == win_frame = <<>> /\ win_kind = "" /\ win_out = <<>> /\ win_stage = "idle"

LINIdle ==
    /\ lin_x = <<>> /\ lin_y = <<>> /\ lin_a = 0 /\ lin_b = 0
    /\ lin_out = <<>> /\ lin_stage = "idle"

OldIdle == FFTIdle /\ FLIdle /\ FRIdle /\ ZCIdle /\ SEGIdle /\ SPIdle

OVIdle == ov_e = 0 /\ ov_N = 1 /\ ov_out = <<>> /\ ov_stage = "idle"

APPIdle == app_state = <<>> /\ app_steps = 0

WVIdle == wv_state = <<>> /\ wv_steps = 0

NewIdle == OVIdle /\ APPIdle /\ WVIdle

AllIdle == OldIdle /\ F0Idle /\ CEPIdle /\ NMIdle /\ WINIdle /\ LINIdle

MoreIdle == F0Idle /\ CEPIdle /\ NMIdle /\ WINIdle /\ LINIdle

---------------------------------------------------------------------------
(* amdf, find_average_minima_spacing, amplitude, calculate_f0 of           *)
(* feature_functions.py, in exact arithmetic. AMDF is kept as N * amdf,    *)
(* a vector of integers: find_peaks and the prominence test              *)
(* prominence >= 0.85 * amp are the same for a vector and its multiple.    *)

\* sum_x2[k] = np.cumsum(signal_sq[::-1])[::-1][k], k from 1
SumX2(data, k) == SumSq(data, k)

\* np.roll(sum_x2, -1)[k]
SumX2Shifted(data, k) == SumX2(data, IF k = Len(data) THEN 1 ELSE k + 1)

RECURSIVE AutoCorrLoop(_, _, _)
\* ifft(fft(data, 2N) * conj(fft(data, 2N))).real at lag: the padding to 2N
\* keeps the lags below N free of wrap-around
AutoCorrLoop(data, lag, j) ==
    IF j + lag > Len(data) THEN 0
    ELSE data[j] * data[j + lag] + AutoCorrLoop(data, lag, j + 1)

\* N * amdf(data)
amdf(data) ==
    [k \in 1..Len(data) |->
        SumX2(data, k) + SumX2Shifted(data, k) - 2 * AutoCorrLoop(data, k - 1, 1)]

\* np.max(data) - np.min(data)
amplitude(data) == MaxFrom(data, 1) + MaxFrom(Negated(data), 1)

RECURSIVE PlateauEnd(_, _, _)
\* scipy _local_maxima_1d: i_ahead, run while x[i_ahead] == x[i] below the last index
PlateauEnd(x, i, ahead) ==
    IF ahead < Len(x) /\ x[ahead] = x[i] THEN PlateauEnd(x, i, ahead + 1) ELSE ahead

RECURSIVE LocalMaxima(_, _)
\* scipy _local_maxima_1d: the midpoints of the strict maxima and plateaus,
\* the two ends of x excluded
LocalMaxima(x, i) ==
    IF i >= Len(x) THEN <<>>
    ELSE IF x[i - 1] < x[i]
         THEN LET ahead == PlateauEnd(x, i, i + 1) IN
              IF x[ahead] < x[i]
              THEN <<(i + ahead - 1) \div 2>> \o LocalMaxima(x, ahead + 1)
              ELSE LocalMaxima(x, i + 1)
         ELSE LocalMaxima(x, i + 1)

RECURSIVE BaseMin(_, _, _, _, _)
\* scipy _peak_prominences: the lowest value met from the peak outwards
\* (step -1 or 1) until a value above the peak or the end of x
BaseMin(x, peak, i, step, lowest) ==
    IF i < 1 \/ i > Len(x) THEN lowest
    ELSE IF x[i] > x[peak] THEN lowest
    ELSE BaseMin(x, peak, i + step, step, IF x[i] < lowest THEN x[i] ELSE lowest)

Prominence(x, peak) ==
    LET left_min  == BaseMin(x, peak, peak, -1, x[peak])
        right_min == BaseMin(x, peak, peak, 1, x[peak])
    IN  x[peak] - (IF left_min > right_min THEN left_min ELSE right_min)

\* 0.85 * amp, in hundredths
ProminencePct == 85

\* signal.find_peaks(x, prominence = 0.85 * amp), indices from 1
find_peaks(x, amp) ==
    IF Len(x) < 3 THEN <<>>
    ELSE SelectSeq(LocalMaxima(x, 2),
                   LAMBDA peak : 100 * Prominence(x, peak) >= ProminencePct * amp)

\* np.diff
Diff(idx) == [k \in 1..(Len(idx) - 1) |-> idx[k + 1] - idx[k]]

NoSpacing == [none |-> TRUE, num |-> 0, den |-> 1]

find_average_minima_spacingThree(amdf_vals, prominence) ==
    LET minima_indices == find_peaks(Negated(amdf_vals), prominence) IN
    IF Len(minima_indices) < 3 THEN NoSpacing
    ELSE LET spacings == Diff(minima_indices) IN
         [none |-> FALSE, num |-> SumOf(spacings, 1), den |-> Len(spacings)]

\* None for fewer than two minima, else np.mean(np.diff(minima_indices))
find_average_minima_spacing(amdf_vals, prominence) ==
    LET minima_indices == find_peaks(Negated(amdf_vals), prominence) IN
    IF Len(minima_indices) < 2 THEN NoSpacing
    ELSE LET spacings == Diff(minima_indices) IN
         [none |-> FALSE, num |-> SumOf(spacings, 1), den |-> Len(spacings)]

\* the value sample_rate / spacing, with what it was computed from
calculate_f0(data, sample_rate) ==
    IF Len(data) = 0
    THEN [err |-> "ValueError", AMDF |-> <<>>, minima |-> <<>>, num |-> 0, den |-> 1]
    ELSE LET AMDF == amdf(data)
             amp == amplitude(AMDF)
             found == find_average_minima_spacing(AMDF, amp)
             spacing == IF found.none \/ found.num = 0
                        THEN [none |-> FALSE, num |-> 1, den |-> 1] ELSE found
         IN  [err |-> "none", AMDF |-> AMDF,
              minima |-> find_peaks(Negated(AMDF), amp),
              num |-> sample_rate * spacing.den, den |-> spacing.num]

F0Samples == {-1, 0, 1}

F0Init ==
    /\ f0_data \in UNION {[1..n -> F0Samples] : n \in 0..MaxF0Len}
    /\ f0_sr \in AudioRates
    /\ f0_out = <<>>
    /\ f0_stage = "input"

CallF0 ==
    /\ f0_stage = "input"
    /\ f0_out' = calculate_f0(f0_data, f0_sr)
    /\ f0_stage' = "done"
    /\ UNCHANGED <<f0_data, f0_sr, old_vars, cep_vars, nm_vars, win_vars, lin_vars, new_vars>>

---------------------------------------------------------------------------
(* f0_from_cepstrum of functions.py, from the cepstrum on: the real        *)
(* cepstrum of the windowed frame (lines 127-130) is an input, a vector    *)
(* as long as the frame.                                                   *)

\* v[lo:hi] for 0 <= lo, hi: Python clamps both ends to len(v)
Slice(v, lo, hi) ==
    LET h == IF hi > Len(v) THEN Len(v) ELSE hi
        l == IF lo > h THEN h ELSE lo
    IN  [k \in 1..(h - l) |-> v[l + k]]

\* np.argmax of a non-empty v: the first index (from 0) of the largest element
ArgMax(v) ==
    LET largest == CHOOSE m \in {v[i] : i \in 1..Len(v)} :
                       \A i \in 1..Len(v) : v[i] <= m
    IN  (CHOOSE i \in 1..Len(v) :
             v[i] = largest /\ \A j \in 1..(i - 1) : v[j] # largest) - 1

\* min_quefrency = int(sr/500); max_quefrency = int(sr/50);
\* peak_idx = np.argmax(cepstrum[min_quefrency:max_quefrency]) + min_quefrency;
\* f0 = sr / peak_idx, kept as num / den
f0_from_cepstrum(cepstrum, sr) ==
    LET min_quefrency == IntTrunc(sr, 500)
        max_quefrency == IntTrunc(sr, 50)
        band == Slice(cepstrum, min_quefrency, max_quefrency)
    IN  IF Len(band) = 0
        THEN [err |-> "ValueError", peak_idx |-> 0, num |-> 0, den |-> 1]
        ELSE LET peak_idx == ArgMax(band) + min_quefrency IN
             [err |-> IF peak_idx = 0 THEN "inf" ELSE "none",
              peak_idx |-> peak_idx, num |-> sr, den |-> peak_idx]

\* sample rates of at least 500 Hz
CepRates == AudioRates \cup {500, 750, 22050}

\* a cepstrum of length n with its single peak at index p (from 0)
Spike(n, p) == [k \in 1..n |-> IF k = p + 1 THEN 1 ELSE 0]

\* frames = frame_signal(signal, frame_length(sr, 0.02), 0.5)
CepFrameLen(sr) == frame_length(sr, 20)

CEPInit ==
    /\ cep_sr \in CepRates
    /\ \E p \in 0..(CepFrameLen(cep_sr) - 1) :
           cep_cepstrum = Spike(CepFrameLen(cep_sr), p)
    /\ cep_out = <<>>
    /\ cep_stage = "input"

\* f0_from_cepstrum(frame, sr)
CallCepstrumF0 ==
    /\ cep_stage = "input"
    /\ cep_out' = f0_from_cepstrum(cep_cepstrum, cep_sr)
    /\ cep_stage' = "done"
    /\ UNCHANGED <<cep_sr, cep_cepstrum, old_vars, f0_vars, nm_vars, win_vars, lin_vars, new_vars>>

---------------------------------------------------------------------------
(* Loading 16-bit PCM: get_normalized_mono of functions.py and             *)
(* AudioAnalyzerApp.open_audio_file of main.py, for the first channel. A   *)
(* normalised signal is the vector of numerators val and the divisor den.  *)

\* np.iinfo(np.int16).max
Int16Max == 32767

\* a value stored in 16 bits
Int16Wrap(v) == ((v + 32768) % 65536) - 32768

\* np.abs of an int16 sample: the result is an int16 again
Int16Abs(v) == Int16Wrap(IF v < 0 THEN 0 - v ELSE v)

\* signal / np.max(np.abs(signal)); np.max raises for an empty signal and a
\* divisor 0 gives nan and inf with a warning
get_normalized_mono(signal) ==
    IF Len(signal) = 0 THEN [err |-> "ValueError", val |-> <<>>, den |-> 1]
    ELSE LET peak == MaxFrom([k \in 1..Len(signal) |-> Int16Abs(signal[k])], 1) IN
         [err |-> "none", val |-> signal, den |-> peak]

\* audio_data.astype(np.float32) / np.iinfo(audio_data.dtype).max
open_audio_file(audio_data) ==
    [err |-> "none", val |-> audio_data, den |-> Int16Max]

\* samples of a 16-bit file
PcmSamples == {-32768, -32767, -1, 0, 1, 32767}

NMInit ==
    /\ nm_signal \in UNION {[1..n -> PcmSamples] : n \in 0..MaxPcmLen}
    /\ nm_out = <<>>
    /\ nm_stage = "input"

CallGetNormalizedMono ==
    /\ nm_stage = "input"
    /\ nm_out' = get_normalized_mono(nm_signal)
    /\ nm_stage' = "get_normalized_mono"
    /\ UNCHANGED <<nm_signal, old_vars, f0_vars, cep_vars, win_vars, lin_vars, new_vars>>

CallOpenAudioFile ==
    /\ nm_stage = "input"
    /\ nm_out' = open_audio_file(nm_signal)
    /\ nm_stage' = "open_audio_file"
    /\ UNCHANGED <<nm_signal, old_vars, f0_vars, cep_vars, win_vars, lin_vars, new_vars>>

---------------------------------------------------------------------------
(* FFT of a linear combination a*x + b*y, next to FFT of x and of y. *)

\* a*x + b*y, element by element
LinComb(a, x, b, y) == [k \in 1..Len(x) |-> Add(Mul(a, x[k]), Mul(b, y[k]))]

\* the scalars 2 and -1 + 2j
LinScalars == {Scale(2, One), Sub(Scale(2, ImagUnit), One)}

\* the sample values 1 and 1j
LinValues == {One, ImagUnit}

\* vectors of length n: a value at one index and 0 elsewhere, or the same
\* value at every index
LinVectors(n) ==
    {[k \in 1..n |-> IF k = p THEN s ELSE Zero] : p \in 1..n, s \in LinValues}
        \cup {[k \in 1..n |-> s] : s \in LinValues}

LINInit ==
    /\ \E e \in 0..MaxLog :
           /\ lin_x \in LinVectors(Pow2(e))
           /\ lin_y \in LinVectors(Pow2(e))
    /\ lin_a \in LinScalars
    /\ lin_b \in LinScalars
    /\ lin_out = <<>>
    /\ lin_stage = "input"

\* FFT(a*x + b*y), FFT(x), FFT(y)
CallFFTOfCombination ==
    /\ lin_stage = "input"
    /\ lin_out' = [comb |-> FFT(LinComb(lin_a, lin_x, lin_b, lin_y)),
                   of_x |-> FFT(lin_x), of_y |-> FFT(lin_y)]
    /\ lin_stage' = "done"
    /\ UNCHANGED <<lin_x, lin_y, lin_a, lin_b, old_vars, f0_vars, cep_vars, nm_vars, win_vars, new_vars>>

---------------------------------------------------------------------------
(* window_signal of functions.py and the window dispatch of                *)
(* AudioAnalyzerApp.update_windowed_plot of main.py. A window coefficient  *)
(* and a windowed sample are quotients <<numerator, denominator>>; the     *)
(* lengths stay where cos(2*pi*n / (N-1)) is rational (N - 1 in 1, 2, 3,   *)
(* 4, 6).                                                                  *)

\* 2 * cos(2*pi * k / 12)
TwoCosTwelfths(k) ==
    CASE k = 0 -> 2
      [] k \in {2, 10} -> 1
      [] k \in {3, 9} -> 0
      [] k \in {4, 8} -> -1
      [] k = 6 -> -2

\* 2 * cos(2*pi * n / M) for M dividing 12
TwoCos(n, M) == TwoCosTwelfths((n * (12 \div M)) % 12)

\* np.bartlett(N)[n], np.hamming(N)[n], np.hanning(N)[n], np.blackman(N)[n]
\* for N >= 1 and n from 0; each is [1.] for N = 1
Coefficient(kind, n, N) ==
    LET M == N - 1 IN
    IF N = 1 THEN <<1, 1>>
    ELSE CASE kind = "triangular" -> IF 2 * n <= M THEN <<2 * n, M>> ELSE <<2 * (M - n), M>>
           [] kind = "hamming"  -> <<108 - 46 * TwoCos(n, M), 200>>
           [] kind = "hanning"  -> <<100 - 50 * TwoCos(n, M), 200>>
           [] kind = "blackman" -> <<84 - 50 * TwoCos(n, M) + 8 * TwoCos(2 * n, M), 200>>
           [] kind = "ones"     -> <<1, 1>>

\* window * signal
Windowed(kind, signal) ==
    [k \in 1..Len(signal) |->
        LET c == Coefficient(kind, k - 1, Len(signal)) IN <<c[1] * signal[k], c[2]>>]

\* the samples of an array, each over 1
AsQuotients(signal) == [k \in 1..Len(signal) |-> <<signal[k], 1>>]

RealWindows == {"triangular", "hamming", "hanning", "blackman"}

window_signalNoRectangular(signal, window_type) ==
    IF window_type \in RealWindows
    THEN [err |-> "none", applied |-> window_type,
          val |-> Windowed(window_type, signal), signal |-> signal]
    ELSE [err |-> "ValueError", applied |-> "none", val |-> <<>>, signal |-> signal]

\* val is what is returned, applied the window multiplied in ("none" when no
\* product is formed), signal the argument array after the call
window_signal(signal, window_type) ==
    IF window_type = "rectangular"
    THEN [err |-> "none", applied |-> "none", val |-> AsQuotients(signal), signal |-> signal]
    ELSE IF window_type \in RealWindows
    THEN [err |-> "none", applied |-> window_type,
          val |-> Windowed(window_type, signal), signal |-> signal]
    ELSE [err |-> "ValueError", applied |-> "none", val |-> <<>>, signal |-> signal]

\* windowed_data of update_windowed_plot for data_to_window of n samples:
\* nothing is computed for n = 0, np.ones(n) is the window of "rectangular"
\* and of every kind the chain does not name
update_windowed_plot(data_to_window, window_type) ==
    IF Len(data_to_window) = 0
    THEN [err |-> "none", applied |-> "none", val |-> <<>>, signal |-> data_to_window]
    ELSE IF window_type \in RealWindows
    THEN [err |-> "none", applied |-> window_type,
          val |-> Windowed(window_type, data_to_window), signal |-> data_to_window]
    ELSE [err |-> "none", applied |-> "ones",
          val |-> Windowed("ones", data_to_window), signal |-> data_to_window]

\* the five kinds of the combo boxes and two that are not among them
WindowKinds == {"rectangular"} \cup RealWindows \cup {"kaiser", ""}

WinSamples == {-1, 0, 2}

WINInit ==
    /\ win_frame \in UNION {[1..n -> WinSamples] : n \in 0..MaxWinLen}
    /\ win_kind \in WindowKinds
    /\ win_out = <<>>
    /\ win_stage = "input"

\* window_signal(frame, window_type)
CallWindowSignal ==
    /\ win_stage = "input"
    /\ win_out' = window_signal(win_frame, win_kind)
    /\ win_frame' = window_signal(win_frame, win_kind).signal
    /\ win_stage' = "window_signal"
    /\ UNCHANGED <<win_kind, old_vars, f0_vars, cep_vars, nm_vars, lin_vars, new_vars>>

\* self.update_windowed_plot(window_type)
CallUpdateWindowedPlot ==
    /\ win_stage = "input"
    /\ win_out' = update_windowed_plot(win_frame, win_kind)
    /\ win_frame' = update_windowed_plot(win_frame, win_kind).signal
    /\ win_stage' = "update_windowed_plot"
    /\ UNCHANGED <<win_kind, old_vars, f0_vars, cep_vars, nm_vars, lin_vars, new_vars>>

---------------------------------------------------------------------------
(* The three bands of plot_sfm and plot_scf of functions.py, for one row   *)
(* of the magnitude spectrum.                                              *)

\* int(f / (sr / 2) * (num_freq_bins - 1))
BandIndex(f, sr, num_freq_bins) == IntTrunc(2 * f * (num_freq_bins - 1), sr)

\* band1, band2, band3 = spec[idx0:idx1], spec[idx1:idx2], spec[idx2:idx3]
\* for f0, f1, f2, f3 = 0, 630, 1720, 4400
Bands(frame, sr) ==
    LET idx1 == BandIndex(630, sr, Len(frame))
        idx2 == BandIndex(1720, sr, Len(frame))
        idx3 == BandIndex(4400, sr, Len(frame))
    IN  <<Slice(frame, 0, idx1), Slice(frame, idx1, idx2), Slice(frame, idx2, idx3)>>

\* the first exception among the three values, in the order they are computed
FirstRaised(vals) ==
    IF \A i \in 1..3 : vals[i].kind \notin {"ZeroDivisionError", "ValueError"} THEN "none"
    ELSE vals[CHOOSE i \in 1..3 :
                  /\ vals[i].kind \in {"ZeroDivisionError", "ValueError"}
                  /\ \A j \in 1..(i - 1) : vals[j].kind \notin {"ZeroDivisionError", "ValueError"}].kind

\* sfm1, sfm2, sfm3 of plot_sfm for one frame
plot_sfm(frame, sr) ==
    LET vals == [i \in 1..3 |-> SFM(Bands(frame, sr)[i])] IN
    [kind |-> "bands", err |-> FirstRaised(vals), vals |-> vals]

\* scf1, scf2, scf3 of plot_scf for one frame
plot_scf(frame, sr) ==
    LET vals == [i \in 1..3 |-> SCF(Bands(frame, sr)[i])] IN
    [kind |-> "bands", err |-> FirstRaised(vals), vals |-> vals]

CallPlotSfm ==
    /\ sp_stage = "input"
    /\ sp_out' = plot_sfm(sp_fft, sp_sr)
    /\ sp_stage' = "plot_sfm"
    /\ UNCHANGED <<sp_fft, sp_df, sp_idx, sp_sr, fft_vars, fl_vars, fr_vars, zc_vars, seg_vars, more_vars, new_vars>>

CallPlotScf ==
    /\ sp_stage = "input"
    /\ sp_out' = plot_scf(sp_fft, sp_sr)
    /\ sp_stage' = "plot_scf"
    /\ UNCHANGED <<sp_fft, sp_df, sp_idx, sp_sr, fft_vars, fl_vars, fr_vars, zc_vars, seg_vars, more_vars, new_vars>>

---------------------------------------------------------------------------
(* SFM and SCF of functions.py in float64, for a band of N bins that all   *)
(* hold the magnitude 2^e. Powers of two and their products are exact in   *)
(* float64 as long as the exponent stays in range, so a value is kept as   *)
(* its binary exponent, as "inf" (overflow) or as "zero" (underflow).      *)

\* float64: 2^1024 and above is inf, below 2^-1074 is 0
FloatInfExp == 1024
FloatZeroExp == -1074

\* the float64 value 2^x
Float2Pow(x) ==
    IF x >= FloatInfExp THEN [kind |-> "inf", exp |-> 0]
    ELSE IF x < FloatZeroExp THEN [kind |-> "zero", exp |-> 0]
    ELSE [kind |-> "pow2", exp |-> x]

RECURSIVE FloatProd(_, _, _)
\* np.prod of n more factors 2^x, each product rounded to float64
FloatProd(acc, x, n) ==
    IF n = 0 \/ acc.kind # "pow2" THEN acc
    ELSE FloatProd(Float2Pow(acc.exp + x), x, n - 1)

\* np.prod(fft**2)**(1/N) * N / np.sum(fft**2): the sum N * 2^(2e) is exact
\* and finite here; inf**(1/N) * N / sum is inf, 0**(1/N) * N / sum is 0, and
\* (2^(2eN))**(1/N) * N / (N * 2^(2e)) is 1 up to rounding
SFM_float64(e, N) ==
    LET sq == Float2Pow(2 * e)
        prod == FloatProd(Float2Pow(0), 2 * e, N)
    IN  IF sq.kind = "inf" THEN "nan"
        ELSE IF sq.kind = "zero" THEN "nan"
        ELSE IF prod.kind = "inf" THEN "inf"
        ELSE IF prod.kind = "zero" THEN "zero"
        ELSE "one"

\* np.max(fft**2) * N / np.sum(fft**2) = 2^(2e) * N / (N * 2^(2e))
SCF_float64(e, N) ==
    LET sq == Float2Pow(2 * e) IN
    IF sq.kind # "pow2" THEN "nan" ELSE "one"

OVInit ==
    /\ ov_e \in (0 - MaxOvExp)..MaxOvExp
    /\ ov_N \in 1..MaxOvBins
    /\ ov_out = <<>>
    /\ ov_stage = "input"

\* SFM(frame) for frame in band1
CallSFMFloat ==
    /\ ov_stage = "input"
    /\ ov_out' = SFM_float64(ov_e, ov_N)
    /\ ov_stage' = "SFM"
    /\ UNCHANGED <<ov_e, ov_N, old_vars, more_vars, app_vars, wv_vars>>

\* SCF(frame) for frame in band1
CallSCFFloat ==
    /\ ov_stage = "input"
    /\ ov_out' = SCF_float64(ov_e, ov_N)
    /\ ov_stage' = "SCF"
    /\ UNCHANGED <<ov_e, ov_N, old_vars, more_vars, app_vars, wv_vars>>

---------------------------------------------------------------------------
(* AudioAnalyzerApp: the file-open and region-select handlers.  The audio
   data is kept by its length; None is written NoValue.  loaded_at and
   selected_at record the event at which audio_data and selected_region
   were last assigned. *)

MaxAppSteps == 4
MaxAppLen == 5
MaxAppRate == 2
MaxHalfSeconds == 6

NoValue == 0 - 1

\* what wavfile.read can return: a sample rate and the samples
AppFiles == [len : 0..MaxAppLen, rate : 0..MaxAppRate]

\* __init__
AppInit ==
    /\ app_steps = 0
    /\ app_state = [audio_data |-> NoValue, sample_rate |-> NoValue,
                    selected_region |-> <<>>, loaded_at |-> 0,
                    selected_at |-> 0, last |-> "ready"]

\* open_audio_file when no file is read: the dialog is cancelled, the file
\* does not exist, or wavfile.read raises
open_audio_fileUnread(st, outcome) == [st EXCEPT !.last = outcome]

\* open_audio_file when wavfile.read returns: sample_rate and audio_data are
\* assigned, then duration = len(audio_data) / sample_rate is computed, and
\* only after it selected_region is reset
open_audio_fileRead(st, file, now) ==
    LET assigned == [st EXCEPT !.sample_rate = file.rate,
                               !.audio_data = file.len,
                               !.loaded_at = now] IN
    IF file.rate = 0
    THEN [assigned EXCEPT !.last = "ZeroDivisionError"]
    ELSE [assigned EXCEPT !.selected_region = <<>>, !.last = "loaded"]

\* on_time_domain_select, xmin and xmax given in half seconds
on_time_domain_select(st, xmin, xmax, now) ==
    IF st.audio_data = NoValue \/ st.sample_rate = NoValue
    THEN [st EXCEPT !.last = "ignored"]
    ELSE LET lo == IntTrunc(xmin * st.sample_rate, 2)
             hi == IntTrunc(xmax * st.sample_rate, 2)
             start_idx == IF lo > 0 THEN lo ELSE 0
             end_idx == IF hi < st.audio_data - 1 THEN hi ELSE st.audio_data - 1 IN
         IF start_idx >= end_idx
         THEN [st EXCEPT !.last = "ignored"]
         ELSE [st EXCEPT !.selected_region = <<start_idx, end_idx>>,
                         !.selected_at = now, !.last = "selected"]

OpenUnread ==
    /\ app_steps < MaxAppSteps
    /\ \E outcome \in {"cancelled", "not found", "unreadable"} :
          app_state' = open_audio_fileUnread(app_state, outcome)
    /\ app_steps' = app_steps + 1
    /\ UNCHANGED <<old_vars, more_vars, ov_vars, wv_vars>>

OpenRead ==
    /\ app_steps < MaxAppSteps
    /\ \E file \in AppFiles :
          app_state' = open_audio_fileRead(app_state, file, app_steps + 1)
    /\ app_steps' = app_steps + 1
    /\ UNCHANGED <<old_vars, more_vars, ov_vars, wv_vars>>

SelectRegion ==
    /\ app_steps < MaxAppSteps
    /\ \E xmin \in (0 - 1)..MaxHalfSeconds, xmax \in (0 - 1)..MaxHalfSeconds :
          app_state' = on_time_domain_select(app_state, xmin, xmax, app_steps + 1)
    /\ app_steps' = app_steps + 1
    /\ UNCHANGED <<old_vars, more_vars, ov_vars, wv_vars>>

---------------------------------------------------------------------------
(* WAVViewer: the slider, Calculate Parameters and Load handlers.  The audio
   data is kept by its length, audio_duration as n_frames / rate; an
   attribute that was never assigned is written <<>>. *)

MaxWavSteps == 3
MaxWavFrames == 4

WavRates == {0, 10, 100}
FrameDurations == {10, 50, 100}
FrameStarts == {0, 50, 100}

\* what wave.open finds in the chosen file
WavFiles == [n_frames : {0, MaxWavFrames}, rate : WavRates, n_channels : {1, 2}]

\* initUI: audio_data and sample_rate are None, audio_duration is not assigned
WavInit ==
    /\ wv_steps = 0
    /\ wv_state = [audio_data |-> NoValue, sample_rate |-> NoValue,
                   audio_duration |-> <<>>, frame_region |-> FALSE,
                   frameDuration |-> 10, frameStart |-> 0, last |-> "ready"]

update_frame_highlight(st) ==
    IF st.audio_duration = <<>>
    THEN [st EXCEPT !.last = "AttributeError"]
    ELSE [st EXCEPT !.frame_region = TRUE, !.last = "highlighted"]

\* the length of audio_data[start_index:end_index] in calculate_parameters
frame_data(st) ==
    LET d == st.audio_duration
        start_index == IntTrunc(st.frameStart * d[1] * st.sample_rate, 100 * d[2])
        end_index == IntTrunc(st.frameStart * d[1] * st.sample_rate * 10
                                + st.frameDuration * st.sample_rate * d[2], 1000 * d[2])
        lo == IF start_index < st.audio_data THEN start_index ELSE st.audio_data
        hi == IF end_index < st.audio_data THEN end_index ELSE st.audio_data IN
    IF hi > lo THEN hi - lo ELSE 0

calculate_parameters_handler(st) ==
    IF st.audio_data = NoValue \/ st.sample_rate = NoValue
    THEN [st EXCEPT !.last = "nothing loaded"]
    ELSE IF frame_data(st) = 0
    THEN [st EXCEPT !.last = "empty frame"]
    ELSE [st EXCEPT !.last = "calculated"]

\* plot_wav: sample_rate is assigned first, the division comes next
plot_wav(st, file) ==
    LET rated == [st EXCEPT !.sample_rate = file.rate] IN
    IF file.rate = 0
    THEN [rated EXCEPT !.last = "ZeroDivisionError"]
    ELSE update_frame_highlight(
             [rated EXCEPT !.audio_duration = <<file.n_frames, file.rate>>,
                           !.audio_data = IF file.n_channels = 2
                                          THEN (2 * file.n_frames + 1) \div 2
                                          ELSE file.n_frames])

ChangeFrameDuration ==
    /\ wv_steps < MaxWavSteps
    /\ \E value \in FrameDurations \ {wv_state.frameDuration} :
          wv_state' = update_frame_highlight([wv_state EXCEPT !.frameDuration = value])
    /\ wv_steps' = wv_steps + 1
    /\ UNCHANGED <<old_vars, more_vars, ov_vars, app_vars>>

ChangeFrameStart ==
    /\ wv_steps < MaxWavSteps
    /\ \E value \in FrameStarts \ {wv_state.frameStart} :
          wv_state' = update_frame_highlight([wv_state EXCEPT !.frameStart = value])
    /\ wv_steps' = wv_steps + 1
    /\ UNCHANGED <<old_vars, more_vars, ov_vars, app_vars>>

ClickCalculate ==
    /\ wv_steps < MaxWavSteps
    /\ wv_state' = calculate_parameters_handler(wv_state)
    /\ wv_steps' = wv_steps + 1
    /\ UNCHANGED <<old_vars, more_vars, ov_vars, app_vars>>

\* load_wav with a file chosen in the dialog
ClickLoad ==
    /\ wv_steps < MaxWavSteps
    /\ \E file \in WavFiles : wv_state' = plot_wav(wv_state, file)
    /\ wv_steps' = wv_steps + 1
    /\ UNCHANGED <<old_vars, more_vars, ov_vars, app_vars>>

---------------------------------------------------------------------------
(* The specifications, one for each component. *)

InitFFTSpec == FFTInit /\ FLIdle /\ FRIdle /\ ZCIdle /\ SEGIdle /\ SPIdle /\ MoreIdle /\ NewIdle
SpecFFT == InitFFTSpec /\ [][FFTNext]_vars

InitFrameLengthSpec == FFTIdle /\ FLInit /\ FRIdle /\ ZCIdle /\ SEGIdle /\ SPIdle /\ MoreIdle /\ NewIdle
FrameLengthNext == CallFrameLength
SpecFrameLength == InitFrameLengthSpec /\ [][FrameLengthNext]_vars

InitFrameSpec == FFTIdle /\ FLIdle /\ FRInit /\ ZCIdle /\ SEGIdle /\ SPIdle /\ MoreIdle /\ NewIdle
FrameNext == CallFrameSignal
SpecFrame == InitFrameSpec /\ [][FrameNext]_vars

InitZcrSpec == FFTIdle /\ FLIdle /\ FRIdle /\ ZCInit /\ SEGIdle /\ SPIdle /\ MoreIdle /\ NewIdle
ZcrNext == CallZCR \/ CallParametersZCR
SpecZcr == InitZcrSpec /\ [][ZcrNext]_vars

InitSegSpec == FFTIdle /\ FLIdle /\ FRIdle /\ ZCIdle /\ SEGInit /\ SPIdle /\ MoreIdle /\ NewIdle
SegNext == CallSilenceRatio
SpecSeg == InitSegSpec /\ [][SegNext]_vars

InitSpectralSpec == FFTIdle /\ FLIdle /\ FRIdle /\ ZCIdle /\ SEGIdle /\ SPInit /\ MoreIdle /\ NewIdle
SpectralNext ==
    \/ CallCentroid \/ CallBandwidth \/ CallESRB \/ CallSFM \/ CallSCF
    \/ CallPlotSfm \/ CallPlotScf
SpecSpectral == InitSpectralSpec /\ [][SpectralNext]_vars

InitWavSpec == AllIdle /\ OVIdle /\ APPIdle /\ WavInit
WavNext == ChangeFrameDuration \/ ChangeFrameStart \/ ClickCalculate \/ ClickLoad
SpecWav == InitWavSpec /\ [][WavNext]_vars

InitAppSpec == AllIdle /\ OVIdle /\ AppInit /\ WVIdle
AppNext == OpenUnread \/ OpenRead \/ SelectRegion
SpecApp == InitAppSpec /\ [][AppNext]_vars

InitFloatSpec == AllIdle /\ OVInit /\ APPIdle /\ WVIdle
FloatNext == CallSFMFloat \/ CallSCFFloat
SpecFloat == InitFloatSpec /\ [][FloatNext]_vars

InitWindowSpec == OldIdle /\ F0Idle /\ CEPIdle /\ NMIdle /\ WINInit /\ LINIdle /\ NewIdle
WindowNext == CallWindowSignal \/ CallUpdateWindowedPlot
SpecWindow == InitWindowSpec /\ [][WindowNext]_vars

InitLinSpec == OldIdle /\ F0Idle /\ CEPIdle /\ NMIdle /\ WINIdle /\ LINInit /\ NewIdle
LinNext == CallFFTOfCombination
SpecLin == InitLinSpec /\ [][LinNext]_vars

InitLoadSpec == OldIdle /\ F0Idle /\ CEPIdle /\ NMInit /\ WINIdle /\ LINIdle /\ NewIdle
LoadNext == CallGetNormalizedMono \/ CallOpenAudioFile
SpecLoad == InitLoadSpec /\ [][LoadNext]_vars

InitCepSpec == OldIdle /\ F0Idle /\ CEPInit /\ NMIdle /\ WINIdle /\ LINIdle /\ NewIdle
CepNext == CallCepstrumF0
SpecCep == InitCepSpec /\ [][CepNext]_vars

InitF0Spec == OldIdle /\ F0Init /\ CEPIdle /\ NMIdle /\ WINIdle /\ LINIdle /\ NewIdle
F0Next == CallF0
SpecF0 == InitF0Spec /\ [][F0Next]_vars

---------------------------------------------------------------------------
(* The transform: FFT, IFFT, full_IFFT. *)

RECURSIVE IsPow2(_)
\* n is a power of two: 1, 2, 4, ..
IsPow2(n) == n = 1 \/ (n > 1 /\ n % 2 = 0 /\ IsPow2(n \div 2))

\* out (numerators over out.den) equals the vector x element by element
SameVector(out, x) ==
    /\ Len(out.val) = Len(x)
    /\ \A k \in 1..Len(x) : out.val[k] = Scale(out.den, x[k])

\* C1: for every vector x whose length is a power of two, full_IFFT(FFT(x))
\* returns x element by element.
RoundTrip ==
    (fft_stage = "full_IFFT" /\ IsPow2(Len(fft_x)))
        => (fft_out.err = "none" /\ SameVector(fft_out, fft_x))

\* a round trip of a vector of the largest length that is neither constant
\* nor real
RoundTripWitness ==
    /\ fft_stage = "full_IFFT"
    /\ Len(fft_x) = Pow2(MaxLog)
    /\ fft_x[1] = Zero
    /\ fft_x[2] = Sub(Scale(2, ImagUnit), One)
    /\ fft_x[Len(fft_x)] = One
    /\ SameVector(fft_out, fft_x)

\* C2: FFT and IFFT of an input whose length n >= 2 is not a power of two
\* end in an error and return no vector.
NonPowerOfTwoFails ==
    (fft_stage \in {"FFT", "IFFT"} /\ Len(fft_x) >= 2 /\ ~IsPow2(Len(fft_x)))
        => fft_out.err # "none"

---------------------------------------------------------------------------
(* The framer: frame_length, frame_signal. *)

\* ceil(a / b) for b > 0
CeilDiv(a, b) == 0 - ((0 - a) \div b)

\* frame j (from 1) of out is padded[(j-1)*hop : (j-1)*hop + L]
FrameIsSlice(out, L, j) ==
    /\ Len(out.frames[j]) = L
    /\ (j - 1) * out.hop + L <= Len(out.padded)
    /\ \A k \in 1..L : out.frames[j][k] = out.padded[(j - 1) * out.hop + k]

\* padded is signal followed by zeros only
IsZeroPadded(padded, signal) ==
    /\ Len(padded) >= Len(signal)
    /\ \A k \in 1..Len(padded) :
          padded[k] = IF k <= Len(signal) THEN signal[k] ELSE 0

\* C3: for every signal length, frame_length and hop >= 1, frame_signal
\* zero-pads the end of the signal so that (padded_length - frame_length)
\* mod hop = 0 and padded_length >= frame_length, and every returned frame
\* i is padded[i*hop : i*hop + frame_length], of frame_length samples.
PaddedToFullFrames ==
    (fr_stage = "done" /\ fr_q < 4 /\ HopLength(fr_L, fr_q) >= 1)
        => /\ fr_out.err = "none"
           /\ IsZeroPadded(fr_out.padded, fr_signal)
           /\ (Len(fr_out.padded) - fr_L) % fr_out.hop = 0
           /\ Len(fr_out.padded) >= fr_L
           /\ \A j \in 1..Len(fr_out.frames) : FrameIsSlice(fr_out, fr_L, j)

\* C4: with overlap = 0, frame_signal returns ceil((len(signal) - L) / L) + 1
\* frames of exactly L samples for every signal length, and every sample of
\* the zero-padded signal belongs to exactly one frame.
NonOverlappingFrames ==
    (fr_stage = "done" /\ fr_q = 0)
        => /\ fr_out.err = "none"
           /\ Len(fr_out.frames) = CeilDiv(Len(fr_signal) - fr_L, fr_L) + 1
           /\ \A j \in 1..Len(fr_out.frames) : FrameIsSlice(fr_out, fr_L, j)
           /\ \A k \in 1..Len(fr_out.padded) :
                 Cardinality({j \in 1..Len(fr_out.frames) :
                     (j - 1) * fr_out.hop < k /\ k <= (j - 1) * fr_out.hop + fr_L}) = 1

\* the same for the signals of at least one sample, for which the code
\* agrees with the statement
NonOverlappingFramesOfNonEmpty ==
    Len(fr_signal) >= 1 => NonOverlappingFrames

\* C5: for positive sr and min_frame_dur, frame_length returns the smallest
\* power of two l with l / sr >= min_frame_dur; frame_length(16000, 0.02)
\* is 512.
FrameLengthSmallestPow2 ==
    fl_out # 0
        => /\ IsPow2(fl_out)
           /\ 1000 * fl_out >= fl_ms * fl_sr
           /\ \A m \in 1..(fl_out - 1) : IsPow2(m) => 1000 * m < fl_ms * fl_sr
           /\ (fl_sr = 16000 /\ fl_ms = 20) => fl_out = 512

FrameLengthWitness == fl_sr = 16000 /\ fl_ms = 20 /\ fl_out = 512

\* C6: frame_signal rejects every overlap >= 1: the call ends in an error
\* and returns no frames.
OverlapAtLeastOneRejected ==
    (fr_stage = "done" /\ fr_q >= 4) => fr_out.err # "none"

---------------------------------------------------------------------------
(* Zero-crossing rate and the silent / voiced / unvoiced segmentation. *)

OppositeSigns(a, b) == (a < 0 /\ b > 0) \/ (a > 0 /\ b < 0)

\* the number of i in 1..L-1 with data[i-1], data[i] of opposite signs
SignChanges(data) ==
    Cardinality({i \in 1..(Len(data) - 1) : OppositeSigns(data[i], data[i + 1])})

StrictlyAlternates(data) ==
    \A i \in 1..(Len(data) - 1) : OppositeSigns(data[i], data[i + 1])

\* out is the quotient SignChanges(data) / (2 * L), and (L - 1) / (2 * L)
\* for a frame that alternates
IsSignChangeRate(out, data) ==
    /\ out.err = "none"
    /\ out.num * 2 * Len(data) = SignChanges(data) * out.den
    /\ StrictlyAlternates(data) => out.num * 2 * Len(data) = (Len(data) - 1) * out.den

\* C10: calculate_zcr of a frame of length L >= 1 is the number of
\* consecutive sample pairs of opposite signs, divided by 2L, and
\* (L - 1) / (2L) for a frame that strictly alternates in sign.
ZcrCountsSignChanges ==
    (zc_stage \in {"feature_functions", "main"} /\ Len(zc_data) >= 1)
        => IsSignChangeRate(zc_out, zc_data)

\* the same for feature_functions.calculate_zcr alone, whose products do
\* not wrap
ZcrCountsSignChangesOfFloats ==
    (zc_stage = "feature_functions" /\ Len(zc_data) >= 1)
        => IsSignChangeRate(zc_out, zc_data)

\* the frames of the call and the segment of each
SegFrames == array_split(seg_data, seg_nframes)
SegBounds(j) ==
    <<SectionStart(Len(seg_data), seg_nframes, j),
      SectionStart(Len(seg_data), seg_nframes, j + 1)>>

InList(list, seg) == \E k \in 1..Len(list) : list[k] = seg

\* the classes the returned lists give frame j
ClassesOf(out, j) ==
    {c \in {"silent", "voiced", "unvoiced"} :
        InList(IF c = "silent" THEN out.silent_idxs
               ELSE IF c = "voiced" THEN out.voiced_idxs
               ELSE out.unvoiced_idxs, SegBounds(j))}

\* ZCR < 0.03 for the frame, the ZCR being sign changes over 2L
LowZcr(frame) == 100 * SignChanges(frame) < 3 * 2 * Len(frame)

\* volume(frame) < 0.05 * max_volume, the volume of every frame and of the
\* maximum being the same measure: the root of the mean of the squares
\* ("rms") or the root of their sum ("sum")
QuietFrame(frame, frames, measure) ==
    \E m \in 1..Len(frames) :
        LET lf == IF measure = "rms" THEN Len(frame) ELSE 1
            lm == IF measure = "rms" THEN Len(frames[m]) ELSE 1
        IN  10000 * SumSq(frame, 1) * lm < 25 * SumSq(frames[m], 1) * lf

ClaimedClass(frame, frames, measure) ==
    IF LowZcr(frame) /\ QuietFrame(frame, frames, measure) THEN "silent"
    ELSE IF LowZcr(frame) THEN "voiced"
    ELSE "unvoiced"

\* C7: each frame is silent iff ZCR < 0.03 and volume < 0.05 * max_volume,
\* voiced iff ZCR < 0.03 and volume >= 0.05 * max_volume, unvoiced
\* otherwise, max_volume being the maximum over the frames of the volume
\* measure compared for the frame.
ClassifiedByThresholds ==
    (seg_stage = "done" /\ seg_out.err = "none")
        => \E measure \in {"rms", "sum"} :
              \A j \in 1..seg_nframes :
                  ClassesOf(seg_out, j) = {ClaimedClass(SegFrames[j], SegFrames, measure)}

\* what holds of the code: the volume of the frame is the root of the sum,
\* the maximum is of the roots of the means, and a frame of low ZCR whose
\* volume equals 0.05 * max_volume is unvoiced
ClassifiedAsCoded ==
    (seg_stage = "done" /\ seg_out.err = "none")
        => \A j \in 1..seg_nframes :
              LET frame == SegFrames[j]
                  below == \E m \in 1..seg_nframes :
                              10000 * SumSq(frame, 1) * Len(SegFrames[m])
                                  < 25 * SumSq(SegFrames[m], 1)
                  above == \A m \in 1..seg_nframes :
                              10000 * SumSq(frame, 1) * Len(SegFrames[m])
                                  > 25 * SumSq(SegFrames[m], 1)
              IN  ClassesOf(seg_out, j) =
                      {IF LowZcr(frame) /\ below THEN "silent"
                       ELSE IF LowZcr(frame) /\ above THEN "voiced"
                       ELSE "unvoiced"}

AllZero(frame) == \A k \in 1..Len(frame) : frame[k] = 0

\* C8: every all-zero frame is classified silent, whatever the signal that
\* contains it, the all-zero signal included.
ZeroFramesSilent ==
    (seg_stage = "done" /\ seg_out.err = "none")
        => \A j \in 1..seg_nframes :
              AllZero(SegFrames[j]) => ClassesOf(seg_out, j) = {"silent"}

\* what holds of the code: an all-zero frame of a signal that is not all
\* zero is silent
ZeroFramesSilentInSound ==
    (seg_stage = "done" /\ seg_out.err = "none" /\ ~AllZero(seg_data))
        => \A j \in 1..seg_nframes :
              AllZero(SegFrames[j]) => ClassesOf(seg_out, j) = {"silent"}

AllSegments(out) == out.silent_idxs \o out.voiced_idxs \o out.unvoiced_idxs

Increasing(list) ==
    \A k \in 1..(Len(list) - 1) : list[k][1] < list[k + 1][1]

\* C9: for 1 <= nframes <= len(signal) the call returns three lists of
\* (start, end) segments: every frame is in exactly one list, each list is
\* in increasing start order, the segments tile [0, len(signal)) with no
\* gap and no overlap, and the ratio is (silent segments) / nframes.
SegmentsTileSignal ==
    (seg_stage = "done" /\ 1 <= seg_nframes /\ seg_nframes <= Len(seg_data))
        => /\ seg_out.err = "none"
           /\ Len(AllSegments(seg_out)) = seg_nframes
           /\ \A j \in 1..seg_nframes : Cardinality(ClassesOf(seg_out, j)) = 1
           /\ Increasing(seg_out.silent_idxs)
           /\ Increasing(seg_out.voiced_idxs)
           /\ Increasing(seg_out.unvoiced_idxs)
           /\ \A k \in 1..seg_nframes :
                 /\ 0 <= AllSegments(seg_out)[k][1]
                 /\ AllSegments(seg_out)[k][1] < AllSegments(seg_out)[k][2]
                 /\ AllSegments(seg_out)[k][2] <= Len(seg_data)
           /\ \A t \in 0..(Len(seg_data) - 1) :
                 Cardinality({k \in 1..seg_nframes :
                     /\ AllSegments(seg_out)[k][1] <= t
                     /\ t < AllSegments(seg_out)[k][2]}) = 1
           /\ seg_out.silent = Len(seg_out.silent_idxs)
           /\ seg_out.nframes = seg_nframes

\* a call that returns frames of all three classes
SegmentsTileWitness ==
    /\ seg_stage = "done"
    /\ seg_out.err = "none"
    /\ seg_nframes >= 3
    /\ seg_nframes < Len(seg_data)
    /\ seg_out.silent_idxs # <<>>
    /\ seg_out.voiced_idxs # <<>>
    /\ seg_out.unvoiced_idxs # <<>>

---------------------------------------------------------------------------
(* Spectral features. *)

\* the frequency axis the calls were given
SpFreqs == FreqAxis(Len(sp_fft), sp_df)

\* the bins of non-zero magnitude
SpNonZeroBins == {k \in 1..Len(sp_fft) : sp_fft[k] # 0}

\* sqrt(up / den) lies in lo..hi, for non-negative lo, hi
RootWithin(r, lo, hi) == lo * lo * r.den <= r.up /\ r.up <= hi * hi * r.den

\* C11: for a non-negative magnitude vector F of non-zero sum, frequency_centroid
\* returns sum(F*f) / sum(F), a value between the smallest and the largest
\* frequency of non-zero magnitude.
CentroidIsWeightedMean ==
    (sp_stage = "centroid" /\ SumOf(sp_fft, 1) # 0) =>
        /\ sp_out.kind = "root"
        /\ sp_out.up * SumOf(sp_fft, 1) * SumOf(sp_fft, 1)
             = SumOf(Times(sp_fft, SpFreqs), 1) * SumOf(Times(sp_fft, SpFreqs), 1) * sp_out.den
        /\ \A lo, hi \in SpNonZeroBins :
             (\A k \in SpNonZeroBins : lo <= k /\ k <= hi) =>
                 RootWithin(sp_out, SpFreqs[lo], SpFreqs[hi])

\* C12: for a spectrum of total magnitude 0 frequency_centroid and
\* effective_bandwidth return the literal 0, and ESRB returns the literal 0
\* when the volume it is given is 0; no quotient is formed.
ZeroSpectrumGivesZero ==
    /\ (sp_stage \in {"centroid", "bandwidth"} /\ SumOf(sp_fft, 1) = 0) => sp_out = SpZero
    /\ (sp_stage = "ESRB" /\ vol(sp_fft).sum = 0) => sp_out = SpZero

ZeroSpectrumWitness ==
    /\ sp_stage = "centroid"
    /\ Len(sp_fft) >= 2
    /\ SumOf(sp_fft, 1) = 0
    /\ sp_out = SpZero

---------------------------------------------------------------------------
(* calculate_f0. *)

\* the minima the call found, as indices from 1
F0Minima == f0_out.minima

\* C13: calculate_f0 returns sample_rate / period with period = (last minimum
\* index - first minimum index) / (number of minima - 1), the mean spacing of
\* the qualifying AMDF minima; with fewer than two minima it returns exactly
\* sample_rate; the divisor is never 0.
F0FromMeanSpacing ==
    (f0_stage = "done" /\ f0_out.err = "none") =>
        /\ f0_out.den # 0
        /\ \A k \in 1..Len(F0Minima) :
             /\ 1 < F0Minima[k] /\ F0Minima[k] < Len(f0_data)
             /\ f0_out.AMDF[F0Minima[k]] <= f0_out.AMDF[F0Minima[k] - 1]
             /\ f0_out.AMDF[F0Minima[k]] <= f0_out.AMDF[F0Minima[k] + 1]
        /\ IF Len(F0Minima) >= 2
           THEN f0_out.num * (F0Minima[Len(F0Minima)] - F0Minima[1])
                  = f0_sr * (Len(F0Minima) - 1) * f0_out.den
           ELSE f0_out.num = f0_sr /\ f0_out.den = 1

F0Witness ==
    /\ f0_stage = "done"
    /\ Len(F0Minima) = 2
    /\ f0_out.num = f0_sr
    /\ f0_out.den = F0Minima[2] - F0Minima[1]
    /\ f0_out.den > 1

---------------------------------------------------------------------------
(* f0_from_cepstrum. *)

\* C14: for sr >= 500 and a frame of at least sr/50 samples f0_from_cepstrum
\* returns sr / q with q a position inside the quefrency band from sr/500 to
\* sr/50 samples, so that 50 <= F0 <= 500.
CepstrumF0InBand ==
    (cep_stage = "done" /\ cep_sr >= 500 /\ 50 * Len(cep_cepstrum) >= cep_sr) =>
        /\ cep_out.err = "none"
        /\ cep_out.num = cep_sr /\ cep_out.den = cep_out.peak_idx
        /\ cep_sr <= 500 * cep_out.peak_idx /\ 50 * cep_out.peak_idx <= cep_sr
        /\ 50 * cep_out.den <= cep_out.num /\ cep_out.num <= 500 * cep_out.den

---------------------------------------------------------------------------
(* SFM and SCF. *)

RECURSIVE Power(_, _)
Power(a, n) == IF n = 0 THEN 1 ELSE a * Power(a, n - 1)

\* the band SFM and SCF were given
SpBand == Band(sp_fft, sp_idx)

AllEqualNonZero(v) == Len(v) >= 1 /\ \A k \in 1..Len(v) : v[k] = v[1] /\ v[k] # 0

OneNonZero(v) == Cardinality({k \in 1..Len(v) : v[k] # 0}) = 1

\* the value returned is v: for SFM, up * root^(1/N) / den = v
SpValueIs(out, N, v) ==
    CASE out.kind = "sfm" -> Power(out.up, N) * out.root = Power(v * out.den, N)
      [] out.kind = "ratio" -> out.up = v * out.den
      [] OTHER -> FALSE

\* SFM of all-equal non-zero bins is 1, SCF of them is 1, SCF of a single
\* non-zero bin is N, and SCF is never above N
FlatAndCrest ==
    /\ (sp_stage \in {"SFM", "SCF"} /\ AllEqualNonZero(SpBand)) =>
           SpValueIs(sp_out, Len(SpBand), 1)
    /\ (sp_stage = "SCF" /\ OneNonZero(SpBand)) =>
           SpValueIs(sp_out, Len(SpBand), Len(SpBand))
    /\ (sp_stage = "SCF" /\ sp_out.kind = "ratio") =>
           sp_out.up <= Len(SpBand) * sp_out.den

---------------------------------------------------------------------------
(* Loading. *)

AbsOf(v) == IF v < 0 THEN 0 - v ELSE v

\* C16: after a file of integer PCM samples is loaded by get_normalized_mono or
\* open_audio_file, every sample of the signal lies in [-1, 1], whatever the
\* sample values, the most negative one (-32768) included.
LoadedWithinUnit ==
    (nm_stage \in {"get_normalized_mono", "open_audio_file"} /\ Len(nm_signal) >= 1) =>
        /\ nm_out.err = "none"
        /\ nm_out.den # 0
        /\ Len(nm_out.val) = Len(nm_signal)
        /\ \A k \in 1..Len(nm_out.val) : AbsOf(nm_out.val[k]) <= AbsOf(nm_out.den)

---------------------------------------------------------------------------
(* Linearity and the impulse. *)

\* C17: for x, y of the same power-of-two length and scalars a, b,
\* FFT(a*x + b*y) = a*FFT(x) + b*FFT(y) element by element.
FFTIsLinear ==
    lin_stage = "done" =>
        /\ lin_out.comb.err = "none" /\ lin_out.of_x.err = "none" /\ lin_out.of_y.err = "none"
        /\ Len(lin_out.comb.val) = Len(lin_x)
        /\ lin_out.comb.val = LinComb(lin_a, lin_out.of_x.val, lin_b, lin_out.of_y.val)

FFTIsLinearWitness ==
    /\ lin_stage = "done"
    /\ Len(lin_x) = 4
    /\ lin_x # lin_y
    /\ lin_a # lin_b
    /\ lin_out.comb.val = LinComb(lin_a, lin_out.of_x.val, lin_b, lin_out.of_y.val)
    /\ \A k \in 1..4 : lin_out.comb.val[k] # Zero

RECURSIVE ConjLoop(_, _)
\* the complex conjugate: zeta^k goes to zeta^(RootOrder - k)
ConjLoop(a, k) ==
    IF k > Dim THEN Zero
    ELSE Add(Scale(a[k], MulZetaPow(One, (RootOrder - (k - 1)) % RootOrder)),
             ConjLoop(a, k + 1))

\* |a|^2
NormSq(a) == Mul(a, ConjLoop(a, 1))

\* 1 followed by zeros, of a power-of-two length
IsUnitImpulse(x) ==
    /\ IsPow2(Len(x))
    /\ x[1] = One
    /\ \A k \in 2..Len(x) : x[k] = Zero

\* C18: FFT of the unit impulse at index 0, of a power-of-two length n, returns
\* n bins, each of magnitude 1.
ImpulseIsFlat ==
    (fft_stage = "FFT" /\ IsUnitImpulse(fft_x)) =>
        /\ fft_out.err = "none"
        /\ Len(fft_out.val) = Len(fft_x)
        /\ \A k \in 1..Len(fft_out.val) : NormSq(fft_out.val[k]) = One

ImpulseIsFlatWitness ==
    /\ fft_stage = "FFT"
    /\ fft_x = <<One, Zero, Zero, Zero>>
    /\ fft_out.val = <<One, One, One, One>>

---------------------------------------------------------------------------
(* Windows. *)

\* the kinds the specification knows
KnownKinds == {"rectangular", "triangular", "hamming", "hanning", "blackman"}

\* C19: window_signal and update_windowed_plot treat a kind outside the five
\* known ones as an error: the call fails and no window is applied, none is
\* substituted.
UnknownKindRejected ==
    (win_stage \in {"window_signal", "update_windowed_plot"} /\ win_kind \notin KnownKinds) =>
        /\ win_out.err # "none"
        /\ win_out.applied = "none"
        /\ win_out.val = <<>>

\* C20: window_signal(frame, 'rectangular') returns the frame with every sample
\* unchanged, the empty frame included, and leaves the frame it was given as
\* it was.
RectangularIsIdentity ==
    [][(win_stage' = "window_signal" /\ win_kind = "rectangular") =>
           /\ win_out'.err = "none"
           /\ win_out'.val = AsQuotients(win_frame)
           /\ win_frame' = win_frame]_vars

RectangularWitness ==
    /\ win_stage = "window_signal"
    /\ win_kind = "rectangular"
    /\ Len(win_frame) >= 2
    /\ win_out.applied = "none"
    /\ win_out.val = AsQuotients(win_frame)

---------------------------------------------------------------------------
(* Pitch recovery and the AMDF values. *)

\* data is 1 at the indices 0, P, 2P, .. and 0 elsewhere, with at least two pulses
IsPulseTrain(data, P) ==
    /\ P >= 1 /\ P < Len(data)
    /\ \A k \in 1..Len(data) : data[k] = IF (k - 1) % P = 0 THEN 1 ELSE 0

\* C21: for a periodic pulse train of period P samples at sample rate sr,
\* f0_from_cepstrum and calculate_f0 both return a value within 5% of sr / P;
\* this is the calculate_f0 half: |num/den - sr/P| <= 0.05 * sr/P.
PulseTrainPitchRecovered ==
    (f0_stage = "done" /\ f0_out.err = "none") =>
        \A P \in 1..Len(f0_data) :
            IsPulseTrain(f0_data, P) =>
                /\ f0_out.den > 0
                /\ 100 * AbsOf(f0_out.num * P - f0_sr * f0_out.den)
                       <= 5 * f0_sr * f0_out.den

RECURSIVE AbsDiffSum(_, _, _)
\* sum over j >= the given one of |x[j] - x[j + lag]|
AbsDiffSum(x, lag, j) ==
    IF j + lag > Len(x) THEN 0
    ELSE AbsOf(x[j] - x[j + lag]) + AbsDiffSum(x, lag, j + 1)

\* C22: for every frame x of length N and every lag k in 0..N-1, amdf(x)[k] is
\* (1/N) * sum over j in 0..N-1-k of |x[j] - x[j+k]|.
AmdfIsMeanAbsDifference ==
    (f0_stage = "done" /\ f0_out.err = "none") =>
        \A k \in 1..Len(f0_data) :
            f0_out.AMDF[k] = AbsDiffSum(f0_data, k - 1, 1)

\* C27: every value of amdf(x) is non-negative and the value at lag 0 is 0.
AmdfNonNegativeZeroAtLagZero ==
    (f0_stage = "done" /\ f0_out.err = "none") =>
        /\ f0_out.AMDF[1] = 0
        /\ \A k \in 1..Len(f0_data) : f0_out.AMDF[k] >= 0

---------------------------------------------------------------------------
(* Completion of the framing and of the band features. *)

\* C23: for every non-empty signal, every frame length frame_length produces
\* (a power of two) and every overlap in [0, 1), frame_signal completes
\* without error: hop is at least 1 and at least one frame is returned.
FramingCompletes ==
    (fr_stage = "done" /\ Len(fr_signal) >= 1 /\ IsPow2(fr_L) /\ fr_q < 4) =>
        /\ fr_out.err = "none"
        /\ fr_out.hop >= 1
        /\ Len(fr_out.frames) >= 1

\* C24: for every frame, the all-zero one included, plot_sfm and plot_scf get a
\* defined numeric value for each of the three bands and never raise, also
\* when a band has no bins.
BandFeaturesDefined ==
    sp_stage \in {"plot_sfm", "plot_scf"} =>
        /\ sp_out.err = "none"
        /\ \A i \in 1..3 : sp_out.vals[i].kind \in {"sfm", "ratio"}

\* C25: for every signal and every nframes > 0, nframes above the number of
\* samples included, calculate_silence_ratio_voiced_unvoiced completes without
\* error and returns the ratio and the three lists, one segment for each frame.
SegmentationCompletes ==
    (seg_stage = "done" /\ seg_nframes > 0) =>
        /\ seg_out.err = "none"
        /\ Len(AllSegments(seg_out)) = seg_nframes
        /\ seg_out.nframes = seg_nframes

---------------------------------------------------------------------------
(* The ranges of SFM and SCF. *)

\* C26: for every band of N >= 1 non-negative magnitudes that are not all zero
\* SFM lies in [0, 1] and SCF lies in [1, N].
FlatnessAndCrestInRange ==
    /\ (ov_stage = "SFM" /\ ov_N >= 1) => ov_out \in {"zero", "one"}
    /\ (ov_stage = "SCF" /\ ov_N >= 1) => ov_out = "one"

---------------------------------------------------------------------------
(* calculate_parameters on 16-bit samples. *)

\* C28: in WAVViewer.calculate_parameters, for a frame of 16-bit samples, STE
\* is the exact mean of the squared samples and ZCR counts exactly the
\* consecutive pairs of opposite sign; no 16-bit wrap-around changes either.
ParametersExactOnInt16 ==
    (zc_stage = "main" /\ Len(zc_data) >= 1) =>
        /\ zc_out.ste.count = Len(zc_data)
        /\ zc_out.ste.sum = SumSq(zc_data, 1)
        /\ zc_out.err = "none"
        /\ zc_out.num * 2 * Len(zc_data) = SignChanges(zc_data) * zc_out.den

---------------------------------------------------------------------------
(* The selection of AudioAnalyzerApp. *)

\* C29: in AudioAnalyzerApp, after any sequence of file-open events
\* (successful or failing) and region-select events, selected_region is
\* either None or a pair (start, end) with
\* 0 <= start < end <= len(audio_data) - 1 for the audio data currently
\* loaded, and a selection made on a previous file never survives the
\* loading of another file.
SelectionWithinLoadedAudio ==
    (app_steps > 0 /\ app_state.selected_region # <<>>) =>
        /\ 0 <= app_state.selected_region[1]
        /\ app_state.selected_region[1] < app_state.selected_region[2]
        /\ app_state.selected_region[2] <= app_state.audio_data - 1
        /\ app_state.selected_at > app_state.loaded_at

---------------------------------------------------------------------------
(* The event handlers of WAVViewer. *)

WavErrors == {"AttributeError", "ZeroDivisionError"}

\* C30: in WAVViewer, every event (frame-duration slider change, frame-start
\* slider change, Calculate Parameters, Load) is handled without error in
\* every reachable state, including the initial state in which no file has
\* been loaded yet.
EveryEventHandled ==
    wv_steps > 0 => wv_state.last \notin WavErrors

=============================================================================
